---- MODULE Spec2Model ----
(***************************************************************************)
(* Knowledge-base store, matcher and report rendering of the               *)
(* Cybersecurity Report Generator (src/cyber/app3.py).                     *)
(*                                                                         *)
(* Text is modelled as sequences of one-character strings, so that         *)
(* lower(), len(), the `in' substring test and truthiness are computed     *)
(* the way Python computes them.                                           *)
(***************************************************************************)
EXTENDS Integers, Sequences, FiniteSets, TLC

(***************************************************************************)
(* Bounds                                                                  *)
(***************************************************************************)
\* number of browser sessions (each owns one st.session_state)
NumSessions == 2

\* operations carried out in one behaviour
MaxOps == 4

\* rows of a table handed to the matcher
MaxRows == 3

\* rows of a table the scores are examined on
MaxScoreRows == 2

Sessions == 1..NumSessions

(***************************************************************************)
(* Text                                                                    *)
(***************************************************************************)
EmptyStr == << >>

\* str.lower() on one character
LowerChar(c) ==
    CASE c = "X" -> "x"
      [] c = "S" -> "s"
      [] c = "Q" -> "q"
      [] c = "L" -> "l"
      [] c = "I" -> "i"
      [] OTHER -> c

\* str.lower()
Lower(s) == [i \in 1..Len(s) |-> LowerChar(s[i])]

\* Python's `a in b' on strings
IsSubstr(a, b) ==
    \E i \in 0..(Len(b) - Len(a)) : SubSeq(b, i + 1, i + Len(a)) = a

\* truthiness of a str
Truthy(s) == Len(s) > 0

\* issue names that may be stored as keys
KXs == <<"x", "s">>
KXss == <<"x", "s", "s">>
KeyNames == {EmptyStr, KXs, KXss}

\* implication / mitigation texts entered by users or found in files
I1 == <<"i">>
I2 == <<"j">>
M1 == <<"m">>
M2 == <<"n">>

(***************************************************************************)
(* The knowledge_base table: rows in rowid order.                          *)
(***************************************************************************)
Row(n, i, m, u) ==
    [issue_name |-> n, implication |-> i, mitigation |-> m, usage_count |-> u]

RowIdx(tbl, n) == {k \in 1..Len(tbl) : tbl[k].issue_name = n}

Stored(tbl, n) == RowIdx(tbl, n) # {}

\* INSERT OR IGNORE INTO knowledge_base (issue_name, implication, mitigation)
InsertOrIgnore(tbl, n, i, m) ==
    IF Stored(tbl, n) THEN tbl ELSE Append(tbl, Row(n, i, m, 0))

\* Upsert as a plain INSERT on a table without the UNIQUE constraint
UpsertNoConflict(tbl, n, i, m) == Append(tbl, Row(n, i, m, 0))

\* Upsert as INSERT OR REPLACE: the old row is deleted, the new one starts
\* with the default usage_count
UpsertReplace(tbl, n, i, m) ==
    Append(SelectSeq(tbl, LAMBDA r : r.issue_name # n), Row(n, i, m, 0))

\* Upsert with an update that is not confined to the conflicting row
UpsertAllRows(tbl, n, i, m) ==
    IF Stored(tbl, n)
    THEN [k \in 1..Len(tbl) |->
            [tbl[k] EXCEPT !.implication = i, !.mitigation = m]]
    ELSE Append(tbl, Row(n, i, m, 0))

\* INSERT ... ON CONFLICT(issue_name) DO UPDATE SET implication, mitigation,
\* updated_at
Upsert(tbl, n, i, m) ==
    IF Stored(tbl, n)
    THEN [k \in 1..Len(tbl) |->
            IF tbl[k].issue_name = n
            THEN [tbl[k] EXCEPT !.implication = i, !.mitigation = m]
            ELSE tbl[k]]
    ELSE Append(tbl, Row(n, i, m, 0))

\* UPDATE knowledge_base SET usage_count = usage_count + 1 WHERE issue_name = ?
UpdateUsage(tbl, n) ==
    [k \in 1..Len(tbl) |->
        IF tbl[k].issue_name = n
        THEN [tbl[k] EXCEPT !.usage_count = @ + 1]
        ELSE tbl[k]]

(***************************************************************************)
(* load_kb_from_db: the SELECT and the dict built from its rows.           *)
(***************************************************************************)
Perms(n) ==
    {p \in [1..n -> 1..n] : \A a, b \in 1..n : a # b => p[a] # p[b]}

\* SELECT ... ORDER BY usage_count DESC: every row once, usage counts
\* non-increasing; the order among equal counts is left open by SQL
SelectOrderByUsageDesc(tbl) ==
    {[k \in 1..Len(tbl) |-> tbl[p[k]]] :
        p \in {q \in Perms(Len(tbl)) :
                 \A a, b \in 1..Len(tbl) :
                    a < b => tbl[q[a]].usage_count >= tbl[q[b]].usage_count}}

KbEntry(n, i, m) == [key |-> n, implication |-> i, mitigation |-> m]

HasKey(d, n) == \E j \in 1..Len(d) : d[j].key = n

\* d[k] = v on a Python dict: a present key keeps its position
DictSet(d, e) ==
    IF HasKey(d, e.key)
    THEN [j \in 1..Len(d) |-> IF d[j].key = e.key THEN e ELSE d[j]]
    ELSE Append(d, e)

RECURSIVE DictFromRows(_, _)
\* kb = {}; for row in rows: kb[row[0]] = {...}
DictFromRows(rows, k) ==
    IF k = 0 THEN << >>
    ELSE DictSet(DictFromRows(rows, k - 1),
                 KbEntry(rows[k].issue_name, rows[k].implication,
                         rows[k].mitigation))

\* the uncached body of load_kb_from_db
QueryKb(tbl) ==
    {DictFromRows(rows, Len(rows)) : rows \in SelectOrderByUsageDesc(tbl)}

EmptyCache == [filled |-> FALSE, kb |-> << >>]

\* @st.cache_data(ttl=3600): a filled cache answers without reading the table
LoadKbFromDb(c, tbl) ==
    IF c.filled THEN {c.kb} ELSE QueryKb(tbl)

\* kb.get(key)
DictGet(d, n) == d[CHOOSE j \in 1..Len(d) : d[j].key = n]

(***************************************************************************)
(* JSON documents: knowledge_base.json, exports and import payloads.       *)
(***************************************************************************)
FStr(s) == [kind |-> "str", s |-> s]
\* the field is not in the object
FAbsent == [kind |-> "absent", s |-> EmptyStr]
\* the field is a non-empty JSON array (e.g. a list of steps)
FList == [kind |-> "list", s |-> EmptyStr]

Member(n, d, i, m) ==
    [key |-> n, isdict |-> d, implication |-> i, mitigation |-> m]

JsonObject(ms) == [top |-> "object", members |-> ms]
\* a document whose top level is not an object
JsonArray == [top |-> "array", members |-> << >>]

\* details.get(field, '')
FieldGet(f) == IF f.kind = "absent" THEN FStr(EmptyStr) ELSE f

\* truthiness of a field value
FieldTruthy(f) == f.kind = "list" \/ (f.kind = "str" /\ Truthy(f.s))

\* sqlite3 binds str parameters; a list raises ProgrammingError
Bindable(f) == f.kind = "str"

RECURSIVE JsonItems(_, _)
\* json.loads of an object: a repeated key keeps its first position and
\* takes its last value
JsonItems(ms, k) ==
    IF k = 0 THEN << >> ELSE DictSet(JsonItems(ms, k - 1), ms[k])

\* json.dumps(kb, indent=2)
JsonDumps(kb) ==
    JsonObject([j \in 1..Len(kb) |->
        Member(kb[j].key, TRUE, FStr(kb[j].implication),
               FStr(kb[j].mitigation))])

(***************************************************************************)
(* add_to_kb_db, import_kb_from_json, the bulk load of init_database.      *)
(***************************************************************************)
\* what the storage layer does during one add_to_kb_db call:
\*   "none"    - no fault
\*   "execute" - execute/commit raises (inside the try block)
\*   "connect" - sqlite3.connect raises (before the try block)
Faults == {"none", "execute", "connect"}

\* add_to_kb_db(issue_name, implication, mitigation); ret is "True",
\* "False", or "raise" when the exception leaves the function
AddToKbDb(tbl, n, i, m, fault) ==
    IF fault = "connect"
    THEN [tbl |-> tbl, ret |-> "raise"]
    ELSE IF fault = "execute" \/ ~Bindable(i) \/ ~Bindable(m)
         THEN [tbl |-> tbl, ret |-> "False"]
         ELSE [tbl |-> Upsert(tbl, n, i.s, m.s), ret |-> "True"]

RECURSIVE ImportLoop(_, _, _, _)
\* the for loop of import_kb_from_json over items[1..k]; ok is the set of
\* positions whose add_to_kb_db returned True
ImportLoop(tbl, items, faults, k) ==
    IF k = 0
    THEN [tbl |-> tbl, count |-> 0, raised |-> FALSE, ok |-> {}]
    ELSE LET prev == ImportLoop(tbl, items, faults, k - 1)
             impl == FieldGet(items[k].implication)
             mitg == FieldGet(items[k].mitigation)
             r    == AddToKbDb(prev.tbl, items[k].key, impl, mitg, faults[k])
         IN  IF prev.raised THEN prev
             ELSE IF ~items[k].isdict THEN prev
             ELSE IF ~(FieldTruthy(impl) /\ FieldTruthy(mitg)) THEN prev
             ELSE IF r.ret = "raise" THEN [prev EXCEPT !.raised = TRUE]
             ELSE IF r.ret = "True"
                  THEN [tbl |-> r.tbl, count |-> prev.count + 1,
                        raised |-> FALSE, ok |-> prev.ok \cup {k}]
                  ELSE prev

\* import_kb_from_json(json_data): the except branch returns 0
ImportKbFromJson(tbl, doc, faults) ==
    IF doc.top # "object"
    THEN [tbl |-> tbl, ret |-> 0, ok |-> {}]
    ELSE LET items == JsonItems(doc.members, Len(doc.members))
             r     == ImportLoop(tbl, items, faults, Len(items))
         IN  [tbl |-> r.tbl, ret |-> IF r.raised THEN 0 ELSE r.count,
              ok |-> r.ok]

NoFaults(n) == [k \in 1..n |-> "none"]

\* positions of items whose entry gets as far as the add_to_kb_db call
Calls(items) ==
    {k \in 1..Len(items) :
        /\ items[k].isdict
        /\ FieldTruthy(FieldGet(items[k].implication))
        /\ FieldTruthy(FieldGet(items[k].mitigation))}

\* the storage layer during an import of items: at most one of the
\* add_to_kb_db calls meets a fault
FaultPatterns(items) ==
    {NoFaults(Len(items))}
    \cup {[NoFaults(Len(items)) EXCEPT ![k] = f] :
             k \in Calls(items), f \in Faults \ {"none"}}

RECURSIVE BulkLoop(_, _, _)
\* the for loop of init_database; a parameter sqlite3 cannot bind raises
BulkLoop(tbl, items, k) ==
    IF k = 0
    THEN [tbl |-> tbl, raised |-> FALSE]
    ELSE LET prev == BulkLoop(tbl, items, k - 1)
             impl == FieldGet(items[k].implication)
             mitg == FieldGet(items[k].mitigation)
         IN  IF prev.raised THEN prev
             ELSE IF ~items[k].isdict THEN prev
             ELSE IF ~(FieldTruthy(impl) /\ FieldTruthy(mitg)) THEN prev
             ELSE IF ~Bindable(impl) \/ ~Bindable(mitg)
                  THEN [prev EXCEPT !.raised = TRUE]
                  ELSE [tbl |-> InsertOrIgnore(prev.tbl, items[k].key,
                                               impl.s, mitg.s),
                        raised |-> FALSE]

NoFile == [exists |-> FALSE, doc |-> JsonArray]

File(doc) == [exists |-> TRUE, doc |-> doc]

\* the body of init_database after the db_initialized check: the inserts are
\* committed after the loop, so an exception inside the try block leaves the
\* connection to be closed with the transaction uncommitted
BulkLoad(tbl, file) ==
    IF Len(tbl) # 0 \/ ~file.exists \/ file.doc.top # "object"
    THEN tbl
    ELSE LET items == JsonItems(file.doc.members, Len(file.doc.members))
             r     == BulkLoop(tbl, items, Len(items))
         IN  IF r.raised THEN tbl ELSE r.tbl

(***************************************************************************)
(* search_kb_db: difflib.SequenceMatcher(None, a, b).ratio() and the score *)
(* built on it.  The strings are far shorter than the 200 characters at    *)
(* which SequenceMatcher starts to treat popular characters as junk.       *)
(***************************************************************************)
RECURSIVE RunLen(_, _, _, _, _, _)
\* length of the longest common run of a[i..ahi] and b[j..bhi] that starts
\* at i and j
RunLen(a, b, i, j, ahi, bhi) ==
    IF i > ahi \/ j > bhi \/ a[i] # b[j] THEN 0
    ELSE 1 + RunLen(a, b, i + 1, j + 1, ahi, bhi)

SetMax(S) == CHOOSE x \in S : \A y \in S : y <= x

SetMin(S) == CHOOSE x \in S : \A y \in S : x <= y

\* SequenceMatcher.find_longest_match on a[alo..ahi], b[blo..bhi]: the
\* longest block, of those the one starting earliest in a, of those the
\* one starting earliest in b
FindLongestMatch(a, b, alo, ahi, blo, bhi) ==
    LET size(i, j) == RunLen(a, b, i, j, ahi, bhi)
        best == SetMax({0} \cup {size(i, j) : i \in alo..ahi, j \in blo..bhi})
    IN  IF best = 0 THEN [i |-> alo, j |-> blo, size |-> 0]
        ELSE LET bi == SetMin({i \in alo..ahi :
                                 \E j \in blo..bhi : size(i, j) = best})
                 bj == SetMin({j \in blo..bhi : size(bi, j) = best})
             IN  [i |-> bi, j |-> bj, size |-> best]

RECURSIVE MatchTotal(_, _, _, _, _, _)
\* sum of the sizes of SequenceMatcher.get_matching_blocks()
MatchTotal(a, b, alo, ahi, blo, bhi) ==
    IF alo > ahi \/ blo > bhi THEN 0
    ELSE LET m == FindLongestMatch(a, b, alo, ahi, blo, bhi)
         IN  IF m.size = 0 THEN 0
             ELSE m.size
                  + MatchTotal(a, b, alo, m.i - 1, blo, m.j - 1)
                  + MatchTotal(a, b, m.i + m.size, ahi, m.j + m.size, bhi)

RECURSIVE Gcd(_, _)
Gcd(a, b) == IF b = 0 THEN a ELSE Gcd(b, a % b)

\* scores are kept as exact fractions <<numerator, denominator>> in lowest
\* terms, numerator >= 0, denominator > 0
Frac(n, d) == LET g == Gcd(n, d) IN <<n \div g, d \div g>>

FracLess(x, y) == x[1] * y[2] < y[1] * x[2]

FracAdd(x, y) == Frac(x[1] * y[2] + y[1] * x[2], x[2] * y[2])

FracMul(x, y) == Frac(x[1] * y[1], x[2] * y[2])

FracMax(x, y) == IF FracLess(x, y) THEN y ELSE x

FracMin(x, y) == IF FracLess(y, x) THEN y ELSE x

\* SequenceMatcher.ratio(): 2.0 * matches / (len(a) + len(b)), 1.0 when both
\* are empty
Ratio(a, b) ==
    IF Len(a) + Len(b) = 0 THEN Frac(1, 1)
    ELSE Frac(2 * MatchTotal(a, b, 1, Len(a), 1, Len(b)), Len(a) + Len(b))

IsSpace(c) == c = " "

RECURSIVE Split(_, _, _)
\* str.split(): the maximal runs of non-whitespace characters of s[k..],
\* cur being the run read so far
Split(s, k, cur) ==
    IF k > Len(s)
    THEN IF cur = << >> THEN << >> ELSE <<cur>>
    ELSE IF IsSpace(s[k])
         THEN IF cur = << >> THEN Split(s, k + 1, << >>)
              ELSE <<cur>> \o Split(s, k + 1, << >>)
         ELSE Split(s, k + 1, Append(cur, s[k]))

\* the keyword_matches sum with three-character keywords counted too
KeywordMatchesMinThree(query_lower, row) ==
    LET keywords == Split(query_lower, 1, << >>)
    IN  Cardinality({k \in 1..Len(keywords) :
            /\ Len(keywords[k]) >= 3
            /\ \/ IsSubstr(keywords[k], Lower(row.issue_name))
               \/ IsSubstr(keywords[k], Lower(row.implication))
               \/ IsSubstr(keywords[k], Lower(row.mitigation))})

\* the keyword_matches sum with a repeated keyword counted once
KeywordMatchesDistinct(query_lower, row) ==
    LET keywords == Split(query_lower, 1, << >>)
    IN  Cardinality({keywords[k] : k \in
            {k \in 1..Len(keywords) :
                /\ Len(keywords[k]) > 3
                /\ \/ IsSubstr(keywords[k], Lower(row.issue_name))
                   \/ IsSubstr(keywords[k], Lower(row.implication))
                   \/ IsSubstr(keywords[k], Lower(row.mitigation))}})

\* the keyword_matches sum
KeywordMatches(query_lower, row) ==
    LET keywords == Split(query_lower, 1, << >>)
    IN  Cardinality({k \in 1..Len(keywords) :
            /\ Len(keywords[k]) > 3
            /\ \/ IsSubstr(keywords[k], Lower(row.issue_name))
               \/ IsSubstr(keywords[k], Lower(row.implication))
               \/ IsSubstr(keywords[k], Lower(row.mitigation))})

\* max_similarity with a usage boost that is not capped
ScoreUsageUncapped(query, row) ==
    LET q == Lower(query)
        issue_similarity == Ratio(q, Lower(row.issue_name))
        impl_similarity  == Ratio(q, Lower(row.implication))
        mitg_similarity  == Ratio(q, Lower(row.mitigation))
        max_similarity ==
            FracMax(issue_similarity,
                    FracMax(FracMul(impl_similarity, Frac(8, 10)),
                            FracMul(mitg_similarity, Frac(8, 10))))
        keyword_matches == KeywordMatches(q, row)
        usage_boost == Frac(row.usage_count, 100)
    IN  FracAdd(FracAdd(max_similarity, Frac(15 * keyword_matches, 100)),
                usage_boost)

\* max_similarity of one row after the keyword and usage boosts
Score(query, row) ==
    LET q == Lower(query)
        issue_similarity == Ratio(q, Lower(row.issue_name))
        impl_similarity  == Ratio(q, Lower(row.implication))
        mitg_similarity  == Ratio(q, Lower(row.mitigation))
        max_similarity ==
            FracMax(issue_similarity,
                    FracMax(FracMul(impl_similarity, Frac(8, 10)),
                            FracMul(mitg_similarity, Frac(8, 10))))
        keyword_matches == KeywordMatches(q, row)
        usage_boost == FracMin(Frac(row.usage_count, 100), Frac(1, 10))
    IN  FracAdd(FracAdd(max_similarity, Frac(15 * keyword_matches, 100)),
                usage_boost)

Match(query, row) ==
    [issue |-> row.issue_name, implication |-> row.implication,
     mitigation |-> row.mitigation, score |-> Score(query, row),
     usage_count |-> row.usage_count]

RECURSIVE Matches(_, _, _)
\* the loop with a row kept when its score is 0.2 or more
MatchesAtLeast(query, rows, k) ==
    IF k = 0 THEN << >>
    ELSE LET prev == Matches(query, rows, k - 1)
             m    == Match(query, rows[k])
         IN  IF ~FracLess(m.score, Frac(2, 10)) THEN Append(prev, m) ELSE prev

\* the loop over rows[1..k]: a row is kept when its score exceeds 0.2
Matches(query, rows, k) ==
    IF k = 0 THEN << >>
    ELSE LET prev == Matches(query, rows, k - 1)
             m    == Match(query, rows[k])
         IN  IF FracLess(Frac(2, 10), m.score) THEN Append(prev, m) ELSE prev

\* insert m in front of the elements of the same score
InsertDescBeforeEqual(sorted, m) ==
    LET pos == Cardinality({j \in 1..Len(sorted) :
                               FracLess(m.score, sorted[j].score)})
    IN  SubSeq(sorted, 1, pos) \o <<m>> \o SubSeq(sorted, pos + 1, Len(sorted))

\* insert m behind every element whose score is not smaller
InsertDesc(sorted, m) ==
    LET pos == Cardinality({j \in 1..Len(sorted) :
                               ~FracLess(sorted[j].score, m.score)})
    IN  SubSeq(sorted, 1, pos) \o <<m>> \o SubSeq(sorted, pos + 1, Len(sorted))

\* the list left as the loop built it
SortNone(ms, k) == SubSeq(ms, 1, k)

RECURSIVE SortDesc(_, _)
\* matches.sort(key=score, reverse=True): stable, equal scores keep their
\* order
SortDesc(ms, k) ==
    IF k = 0 THEN << >> ELSE InsertDesc(SortDesc(ms, k - 1), ms[k])

\* matches[:top_n] for top_n >= 0
Take(ms, top_n) == SubSeq(ms, 1, IF top_n < Len(ms) THEN top_n ELSE Len(ms))

\* search_kb_db with the length check off by one
SearchKbDbMinTwo(rows, query, top_n) ==
    IF ~Truthy(query) \/ Len(query) < 2 THEN << >>
    ELSE LET ms == Matches(query, rows, Len(rows))
         IN  Take(SortDesc(ms, Len(ms)), top_n)

\* search_kb_db(query, top_n) on the rows the SELECT returned
SearchKbDb(rows, query, top_n) ==
    IF ~Truthy(query) \/ Len(query) < 3 THEN << >>
    ELSE LET ms == Matches(query, rows, Len(rows))
         IN  Take(SortDesc(ms, Len(ms)), top_n)

(***************************************************************************)
(* increment_kb_usage and the resolution loop of generate_finding_pages.   *)
(***************************************************************************)
\* increment_kb_usage without the session check
IncrementKbUsageEveryCall(tbl, used, n) ==
    [tbl |-> UpdateUsage(tbl, n), used |-> used \cup {n}]

\* increment_kb_usage that never sets the session flag
IncrementKbUsageNoFlag(tbl, used, n) ==
    IF n \in used
    THEN [tbl |-> tbl, used |-> used]
    ELSE [tbl |-> UpdateUsage(tbl, n), used |-> used]

\* increment_kb_usage(issue_name); used is the set of names n for which
\* st.session_state['kb_used_' + n] is set
IncrementKbUsage(tbl, used, n) ==
    IF n \in used
    THEN [tbl |-> tbl, used |-> used]
    ELSE [tbl |-> UpdateUsage(tbl, n), used |-> used \cup {n}]

\* the placeholders, kept whole: they are only ever written to the document
NoImplication == <<"[No implication provided]">>

NoMitigation == <<"[No mitigation provided]">>

Finding(issue, i, m) == [issue |-> issue, implication |-> i, mitigation |-> m]

\* k.lower() in issue.lower() or issue.lower() in k.lower()
SubstrMatch(k, issue) ==
    IsSubstr(Lower(k), Lower(issue)) \/ IsSubstr(Lower(issue), Lower(k))

\* the key the lookup settles on: found is FALSE when kb_key stays None
KbKey(kb, issue) ==
    IF HasKey(kb, issue)
    THEN [found |-> TRUE, key |-> issue]
    ELSE LET hits == {j \in 1..Len(kb) : SubstrMatch(kb[j].key, issue)}
         IN  IF hits = {} THEN [found |-> FALSE, key |-> EmptyStr]
             ELSE [found |-> TRUE, key |-> kb[SetMin(hits)].key]

\* implication and mitigation of one finding; call says whether
\* increment_kb_usage(key) is called on the way
Resolve(kb, f) ==
    LET lookup == ~Truthy(f.implication) \/ ~Truthy(f.mitigation)
        kk     == KbKey(kb, f.issue)
        \* `if kb_key:' is the truthiness of the key, not `is not None'
        use    == lookup /\ kk.found /\ Truthy(kk.key)
        impl1  == IF use /\ ~Truthy(f.implication)
                  THEN DictGet(kb, kk.key).implication ELSE f.implication
        mitg1  == IF use /\ ~Truthy(f.mitigation)
                  THEN DictGet(kb, kk.key).mitigation ELSE f.mitigation
    IN  [implication |-> IF Truthy(impl1) THEN impl1 ELSE NoImplication,
         mitigation  |-> IF Truthy(mitg1) THEN mitg1 ELSE NoMitigation,
         call |-> lookup /\ kk.found, key |-> kk.key]

RECURSIVE FindingLoop(_, _, _, _, _)
\* `for f in findings' over findings[1..k]
FindingLoop(kb, findings, k, tbl, used) ==
    IF k = 0 THEN [tbl |-> tbl, used |-> used, out |-> << >>, calls |-> {}]
    ELSE LET prev == FindingLoop(kb, findings, k - 1, tbl, used)
             r    == Resolve(kb, findings[k])
             inc  == IF r.call
                     THEN IncrementKbUsage(prev.tbl, prev.used, r.key)
                     ELSE [tbl |-> prev.tbl, used |-> prev.used]
         IN  [tbl |-> inc.tbl, used |-> inc.used,
              calls |-> IF r.call THEN prev.calls \cup {r.key}
                        ELSE prev.calls,
              out |-> Append(prev.out,
                             [implication |-> r.implication,
                              mitigation |-> r.mitigation])]

(***************************************************************************)
(* Inputs                                                                  *)
(***************************************************************************)
\* a well-formed entry, an entry that is not an object, a well-formed entry
\* under the empty key
DocMixed ==
    JsonObject(<<Member(KXs, TRUE, FStr(I1), FStr(M1)),
                 Member(KXss, FALSE, FAbsent, FAbsent),
                 Member(EmptyStr, TRUE, FStr(I1), FStr(M1))>>)

\* an empty field, a well-formed entry, a missing field
DocEmptyField ==
    JsonObject(<<Member(KXss, TRUE, FStr(EmptyStr), FStr(M1)),
                 Member(KXs, TRUE, FStr(I2), FStr(M2)),
                 Member(EmptyStr, TRUE, FStr(I1), FAbsent)>>)

\* a well-formed entry, an entry whose mitigation is a list, and the first
\* key once more
DocList ==
    JsonObject(<<Member(KXss, TRUE, FStr(I1), FStr(M1)),
                 Member(KXs, TRUE, FStr(I1), FList),
                 Member(KXss, TRUE, FStr(I2), FStr(M2))>>)

ImportDocs == {DocMixed, DocEmptyField, DocList, JsonArray}

\* knowledge_base.json as found at startup
KbFiles == {NoFile, File(DocMixed), File(DocList)}

\* what the Save button can pass: issue, implication and mitigation are all
\* truthy there
SaveInputs == {<<KXs, I1, M1>>, <<KXss, I1, M1>>, <<KXss, I2, M2>>}

QXSS == <<"X", "S", "S">>

Queries == {EmptyStr, KXs, QXSS}

TopNs == {5}

E1 == <<"e">>
F1 == <<"f">>

FindingIssues == {KXss, QXSS, <<"q">>}

Blank(issue) == Finding(issue, EmptyStr, EmptyStr)

\* reports of one finding and of two findings
FindingLists ==
    {<<Blank(n)>> : n \in FindingIssues}
    \cup {<<Finding(KXss, E1, EmptyStr)>>, <<Finding(QXSS, EmptyStr, F1)>>,
          <<Finding(KXss, E1, F1)>>,
          <<Blank(KXss), Blank(KXss)>>, <<Blank(QXSS), Blank(KXss)>>}

(***************************************************************************)
(* State                                                                   *)
(***************************************************************************)
VARIABLES
    db,              \* the knowledge_base table of knowledge_base.db
    cache,           \* the st.cache_data entry of load_kb_from_db
    db_initialized,  \* st.session_state.db_initialized, per session
    kb_used,         \* the kb_used_<issue_name> flags, per session
    kb_file,         \* knowledge_base.json
    called,          \* history: names each session passed to increment_kb_usage
    last,            \* the last operation: its name, arguments and return value
    ops,             \* number of operations carried out so far
    tmp_files,       \* the temporary files that exist
    conns            \* the add_to_kb_db call each session has in progress

vars ==
    <<ops, db, cache, db_initialized, kb_used, kb_file, called, last,
      tmp_files, conns>>

\* no call of add_to_kb_db in progress
Idle ==
    [pc |-> "idle", issue_name |-> EmptyStr, implication |-> EmptyStr,
     mitigation |-> EmptyStr, txn |-> << >>]

\* some session has come past init_database(), the first call of main()
Started == \E s \in Sessions : db_initialized[s]

\* one more operation, while the behaviour may still grow
Tick == ops < MaxOps /\ ops' = ops + 1

\* s is the session where the operation depends on it, 0 elsewhere
Op(op, s, arg, ret) == [op |-> op, s |-> s, arg |-> arg, ret |-> ret]

Init ==
    /\ db = << >>
    /\ cache = EmptyCache
    /\ db_initialized = [s \in Sessions |-> FALSE]
    /\ kb_used = [s \in Sessions |-> {}]
    /\ kb_file \in KbFiles
    /\ called = [s \in Sessions |-> {}]
    /\ last = Op("start", 0, << >>, << >>)
    /\ ops = 0
    /\ tmp_files = {}
    /\ conns = [s \in Sessions |-> Idle]

\* main() runs init_database() at the top of every script run; arg tells
\* whether the session had run it before and whether the table had rows
InitDatabase(s) ==
    /\ Tick
    /\ db' = IF db_initialized[s] THEN db ELSE BulkLoad(db, kb_file)
    /\ db_initialized' = [db_initialized EXCEPT ![s] = TRUE]
    /\ last' = Op("init", s, <<db_initialized[s], Len(db) # 0>>, << >>)
    /\ UNCHANGED <<cache, kb_used, kb_file, called>>
    /\ UNCHANGED <<tmp_files, conns>>

\* a script run that reads the knowledge base (the auto-fill and Save
\* sections of the form); what load_kb_from_db returned is cache'.kb
LoadKb ==
    /\ Tick
    /\ Started
    /\ \E kb \in LoadKbFromDb(cache, db) :
        /\ cache' = [filled |-> TRUE, kb |-> kb]
        /\ last' = Op("load", 0, << >>, kb)
    /\ UNCHANGED <<db, db_initialized, kb_used, kb_file, called>>
    /\ UNCHANGED <<tmp_files, conns>>

\* the ttl of the cache entry runs out
CacheExpire ==
    /\ Tick
    /\ cache.filled
    /\ cache' = EmptyCache
    /\ last' = Op("expire", 0, << >>, << >>)
    /\ UNCHANGED <<db, db_initialized, kb_used, kb_file, called>>
    /\ UNCHANGED <<tmp_files, conns>>

\* the "Save ... to Knowledge Base" button
SaveToKb(issue, impl, mitg, fault) ==
    /\ Tick
    /\ Started
    /\ Truthy(issue) /\ Truthy(impl) /\ Truthy(mitg)
    /\ \E kb \in LoadKbFromDb(cache, db) :
        /\ ~HasKey(kb, issue)
        /\ cache' = [filled |-> TRUE, kb |-> kb]
    /\ LET r == AddToKbDb(db, issue, FStr(impl), FStr(mitg), fault)
       IN  /\ db' = r.tbl
           /\ last' = Op("add", 0, KbEntry(issue, impl, mitg), r.ret)
    /\ UNCHANGED <<db_initialized, kb_used, kb_file, called>>
    /\ UNCHANGED <<tmp_files, conns>>

\* import_kb_from_json(json_data); ret is the count it returned and, as
\* history, the positions whose add_to_kb_db call returned True
ImportKb(doc, faults) ==
    /\ Tick
    /\ Started
    /\ LET r == ImportKbFromJson(db, doc, faults)
       IN  /\ db' = r.tbl
           /\ last' = Op("import", 0, <<doc, faults>>, <<r.ret, r.ok>>)
    /\ UNCHANGED <<cache, db_initialized, kb_used, kb_file, called>>
    /\ UNCHANGED <<tmp_files, conns>>

\* a suggestion or auto-fill credits the entry it took its text from; ret
\* tells whether the session had made the same call before
IncrementUsage(s, n) ==
    /\ Tick
    /\ db_initialized[s]
    /\ Stored(db, n)
    /\ LET r == IncrementKbUsage(db, kb_used[s], n)
       IN  /\ db' = r.tbl
           /\ kb_used' = [kb_used EXCEPT ![s] = r.used]
    /\ called' = [called EXCEPT ![s] = @ \cup {n}]
    /\ last' = Op("increment", s, n, n \in called[s])
    /\ UNCHANGED <<cache, db_initialized, kb_file>>
    /\ UNCHANGED <<tmp_files, conns>>

\* search_kb_db(query, top_n) on the rows in rowid order
SearchKb(query, top_n) ==
    /\ Tick
    /\ Started
    /\ last' = Op("search", 0, <<query, top_n>>,
                   SearchKbDb(db, query, top_n))
    /\ UNCHANGED <<db, cache, db_initialized, kb_used, kb_file, called>>
    /\ UNCHANGED <<tmp_files, conns>>

\* the "Export KB to JSON" button; ret is the exported document
ExportKb ==
    /\ Tick
    /\ Started
    /\ \E kb \in LoadKbFromDb(cache, db) :
        /\ cache' = [filled |-> TRUE, kb |-> kb]
        /\ last' = Op("export", 0, << >>, JsonDumps(kb))
    /\ UNCHANGED <<db, db_initialized, kb_used, kb_file, called>>
    /\ UNCHANGED <<tmp_files, conns>>

\* generate_finding_pages(doc, findings, ...); ret is the implication and
\* mitigation written for each finding.  main() lets the Generate button
\* through only when every finding has an issue description.
GenerateFindingPages(s, findings) ==
    /\ Tick
    /\ db_initialized[s]
    /\ \E kb \in LoadKbFromDb(cache, db) :
        LET r == FindingLoop(kb, findings, Len(findings), db, kb_used[s])
        IN  /\ cache' = [filled |-> TRUE, kb |-> kb]
            /\ db' = r.tbl
            /\ kb_used' = [kb_used EXCEPT ![s] = r.used]
            /\ called' = [called EXCEPT ![s] = @ \cup r.calls]
            /\ last' = Op("render", s, findings, r.out)
    /\ UNCHANGED <<db_initialized, kb_file>>
    /\ UNCHANGED <<tmp_files, conns>>

Next ==
    \/ \E s \in Sessions : InitDatabase(s)
    \/ LoadKb
    \/ CacheExpire
    \/ \E a \in SaveInputs, fault \in Faults :
          SaveToKb(a[1], a[2], a[3], fault)
    \/ \E doc \in ImportDocs :
          \E faults \in FaultPatterns(JsonItems(doc.members,
                                                 Len(doc.members))) :
              ImportKb(doc, faults)
    \/ \E s \in Sessions, n \in KeyNames : IncrementUsage(s, n)
    \/ \E query \in Queries, top_n \in TopNs : SearchKb(query, top_n)
    \/ ExportKb
    \/ \E s \in Sessions, findings \in FindingLists :
          GenerateFindingPages(s, findings)

Spec == Init /\ [][Next]_vars

(***************************************************************************)
(* The matcher on given tables: search_kb_db applied to stores of up to    *)
(* MaxRows entries.                                                        *)
(***************************************************************************)
SqlInjection ==
    <<"S", "Q", "L", " ", "I", "n", "j", "e", "c", "t", "i", "o", "n">>

SqlInjections == Append(SqlInjection, "s")

\* entries a store may hold, with the usage counts they have gathered
SearchRows ==
    {Row(SqlInjection, I1, M1, 0),
     Row(Lower(SqlInjection), I1, M1, 0),
     Row(Lower(SqlInjection), I1, M1, 1),
     Row(SqlInjections, I1, M1, 10),
     Row(KXss, I1, M1, 0),
     Row(KXss, I1, M1, 2),
     Row(KXs, I2, M2, 0)}

\* tables of up to MaxRows rows, one row per issue_name
SearchTables ==
    UNION {{t \in [1..n -> SearchRows] :
              \A a, b \in 1..n : a # b => t[a].issue_name # t[b].issue_name} :
           n \in 0..MaxRows}

SearchQueries == {SqlInjection, KXss, KXs}

SearchTopNs == {0, 1, 2, 5}

SearchInit ==
    /\ db \in SearchTables
    /\ cache = EmptyCache
    /\ db_initialized = [s \in Sessions |-> TRUE]
    /\ kb_used = [s \in Sessions |-> {}]
    /\ kb_file = NoFile
    /\ called = [s \in Sessions |-> {}]
    /\ last = Op("start", 0, << >>, << >>)
    /\ ops = 0
    /\ tmp_files = {}
    /\ conns = [s \in Sessions |-> Idle]

\* one search on each table
SearchNext ==
    /\ ops = 0
    /\ \E query \in SearchQueries, top_n \in SearchTopNs :
          SearchKb(query, top_n)

SpecSearch == SearchInit /\ [][SearchNext]_vars

(***************************************************************************)
(* generate_finding_pages on findings without an issue text, as a function *)
(* of its arguments and the store.                                         *)
(***************************************************************************)
FindingTables ==
    {<< >>,
     <<Row(KXs, I1, M1, 0)>>,
     <<Row(KXs, I1, M1, 0), Row(KXss, I2, M2, 0)>>,
     <<Row(KXs, I1, M1, 0), Row(KXss, I2, M2, 1)>>,
     <<Row(EmptyStr, I2, M2, 0)>>,
     <<Row(KXs, I1, M1, 0), Row(EmptyStr, I2, M2, 0)>>,
     <<Row(KXs, I1, M1, 1), Row(EmptyStr, I2, M2, 0)>>}

EmptyIssueLists ==
    {<<Blank(EmptyStr)>>,
     <<Finding(EmptyStr, E1, EmptyStr)>>,
     <<Finding(EmptyStr, EmptyStr, F1)>>,
     <<Finding(EmptyStr, E1, F1)>>,
     <<Blank(KXss), Blank(EmptyStr)>>,
     <<Blank(EmptyStr), Blank(EmptyStr)>>,
     <<Blank(<<"q">>), Finding(EmptyStr, E1, EmptyStr)>>,
     <<Blank(KXss)>>}

FindingsInit ==
    /\ db \in FindingTables
    /\ cache = EmptyCache
    /\ db_initialized = [s \in Sessions |-> TRUE]
    /\ kb_used = [s \in Sessions |-> {}]
    /\ kb_file = NoFile
    /\ called = [s \in Sessions |-> {}]
    /\ last = Op("start", 0, << >>, << >>)
    /\ ops = 0
    /\ tmp_files = {}
    /\ conns = [s \in Sessions |-> Idle]

\* one call on each store
FindingsNext ==
    /\ ops = 0
    /\ \E s \in Sessions, findings \in EmptyIssueLists :
          GenerateFindingPages(s, findings)

SpecFindings == FindingsInit /\ [][FindingsNext]_vars

(***************************************************************************)
(* The score of a candidate: search_kb_db on stores of up to MaxScoreRows  *)
(* entries chosen for the threshold, the keyword bonus and the usage       *)
(* bonus.  Scores are kept as exact fractions.                             *)
(***************************************************************************)
SAbcdef == <<"s", "a", "b", "c", "d", "e", "f">>

KXssq == <<"x", "s", "s", "q">>

\* "xss" against "sabcdef" has ratio 2 * 1 / 10; the keyword "xssq" stands
\* in two fields of one row and, in capitals, in the mitigation of another
ScoreRows ==
    {Row(SAbcdef, I1, M1, 0), Row(SAbcdef, I1, M1, 1),
     Row(KXssq, KXssq, M1, 0),
     Row(KXs, I1, <<"X", "S", "S", "Q">>, 0)}
    \cup {Row(KXss, I1, M1, u) : u \in {0, 9, 10, 11, 25}}

ScoreTables ==
    UNION {{t \in [1..n -> ScoreRows] :
              \A a, b \in 1..n : a # b => t[a].issue_name # t[b].issue_name} :
           n \in 0..MaxScoreRows}

\* "xssq xs xssq": one keyword twice and a short one
QRepeated ==
    <<"x", "s", "s", "q", " ", "x", "s", " ", "x", "s", "s", "q">>

ScoreQueries == {KXss, QRepeated, <<"X", "S", "S", "Q">>}

ScoreInit ==
    /\ db \in ScoreTables
    /\ cache = EmptyCache
    /\ db_initialized = [s \in Sessions |-> TRUE]
    /\ kb_used = [s \in Sessions |-> {}]
    /\ kb_file = NoFile
    /\ called = [s \in Sessions |-> {}]
    /\ last = Op("start", 0, << >>, << >>)
    /\ ops = 0
    /\ tmp_files = {}
    /\ conns = [s \in Sessions |-> Idle]

\* one search on each table, with the default top_n
ScoreNext ==
    /\ ops = 0
    /\ \E query \in ScoreQueries : SearchKb(query, 5)

SpecScore == ScoreInit /\ [][ScoreNext]_vars

(***************************************************************************)
(* generate_report: the output file name.                                  *)
(***************************************************************************)
Digits == {"0", "1", "2", "3", "4", "5", "6", "7", "8", "9"}

LowerLetters ==
    {"a", "b", "c", "d", "e", "f", "g", "h", "i", "j", "k", "l", "m",
     "n", "o", "p", "q", "r", "s", "t", "u", "v", "w", "x", "y", "z"}

UpperLetters ==
    {"A", "B", "C", "D", "E", "F", "G", "H", "I", "J", "K", "L", "M",
     "N", "O", "P", "Q", "R", "S", "T", "U", "V", "W", "X", "Y", "Z"}

\* the characters outside the negated class [^0-9a-zA-Z-_ ]
Kept(c) == c \in Digits \cup LowerLetters \cup UpperLetters \cup {"-", "_", " "}

\* re.sub(r"[^0-9a-zA-Z-_ ]+", '', app_name) with every character kept
ReSubAll(app_name) == app_name

\* re.sub(r"[^0-9a-zA-Z-_ ]+", '', app_name)
ReSub(app_name) == SelectSeq(app_name, Kept)

RECURSIVE LStrip(_)
LStrip(s) ==
    IF s # << >> /\ IsSpace(Head(s)) THEN LStrip(Tail(s)) ELSE s

RECURSIVE RStrip(_)
RStrip(s) ==
    IF s # << >> /\ IsSpace(s[Len(s)])
    THEN RStrip(SubSeq(s, 1, Len(s) - 1)) ELSE s

\* str.replace(' ', '_')
ReplaceSpaces(s) == [k \in 1..Len(s) |-> IF s[k] = " " THEN "_" ELSE s[k]]

\* re.sub(...).strip().replace(' ', '_'); strip() takes the spaces off both
\* ends
SafeName(app_name) == ReplaceSpaces(RStrip(LStrip(ReSub(app_name))))

\* f"{safe_name}_{version}.docx" with version = "v1.0", kept whole
Filename(app_name) == SafeName(app_name) \o <<"_", "v1.0", ".docx">>

(***************************************************************************)
(* generate_report: the document, as the sequence of blocks appended to it.*)
(* A picture is "none" (not supplied), "good" (python-docx embeds it) or   *)
(* "bad" (add_picture raises on it).                                       *)
(***************************************************************************)
Pictures == {"none", "good", "bad"}

\* the temporary file of the logo, of the architecture diagram, and of
\* evidence image j of finding k
LogoTmp == <<"logo">>

ArchTmp == <<"arch">>

EvidenceTmp(k, j) == <<"evidence", k, j>>

\* create_cover_page with the border left out of the section properties
CreateCoverPageNoBorder(doc, logo_exists, logo) ==
    doc \o <<[kind |-> "cover",
              logo |-> IF logo_exists /\ logo = "good"
                       THEN "picture" ELSE "[Company Logo]"],
             [kind |-> "sectPr", border |-> FALSE, type |-> "nextPage"]>>

\* create_cover_page: the logo paragraph and the title lines, then the
\* paragraph that carries the section properties of the cover section
CreateCoverPage(doc, logo_exists, logo) ==
    doc \o <<[kind |-> "cover",
              logo |-> IF logo_exists /\ logo = "good"
                       THEN "picture" ELSE "[Company Logo]"],
             [kind |-> "sectPr", border |-> TRUE, type |-> "nextPage"]>>

\* add_document_info_page without the test that the logo file exists
AddDocumentInfoPageNoCheck(doc, logo_exists, logo) ==
    Append(doc, [kind |-> "doc_info",
                 logo |-> IF logo = "good" THEN "picture" ELSE "[Logo]"])

\* add_document_info_page: the metadata table with its logo cell
AddDocumentInfoPage(doc, logo_exists, logo) ==
    Append(doc, [kind |-> "doc_info",
                 logo |-> IF logo_exists /\ logo = "good"
                          THEN "picture" ELSE "[Logo]"])

\* add_assessment_summary: summary, scope and the architecture diagram; tmp
\* is the set of temporary files it leaves behind
AddAssessmentSummary(doc, arch) ==
    [doc |-> Append(doc, [kind |-> "summary",
                          arch |-> CASE arch = "good" -> "picture"
                                     [] arch = "bad" ->
                                          "[Could not insert architecture diagram]"
                                     [] OTHER -> "none"]),
     tmp |-> IF arch = "bad" THEN {ArchTmp} ELSE {}]

\* add_ip_inventory_table
AddIpInventoryTable(doc) == Append(doc, [kind |-> "ip_table"])

Classifications ==
    <<"Mobile Application Vulnerability", "Server Vulnerabilities",
      "Web Vulnerabilities">>

RECURSIVE MasterRows(_, _)
\* the rows with a header for every classification, used or not
MasterRowsAllHeaders(findings, c) ==
    IF c = 0 THEN << >>
    ELSE LET classified_findings ==
                 SelectSeq(findings,
                           LAMBDA f : f.classification = Classifications[c])
             rows == [k \in 1..Len(classified_findings) |->
                         [kind |-> "finding",
                          number |-> classified_findings[k].number,
                          issue |-> classified_findings[k].issue]]
         IN  MasterRows(findings, c - 1)
             \o <<[kind |-> "group", text |-> Classifications[c]]>> \o rows

\* the rows add_findings_master_table adds for classifications[1..c]: a
\* header row for a classification some finding has, then the rows of its
\* findings
MasterRows(findings, c) ==
    IF c = 0 THEN << >>
    ELSE LET classified_findings ==
                 SelectSeq(findings,
                           LAMBDA f : f.classification = Classifications[c])
             rows == [k \in 1..Len(classified_findings) |->
                         [kind |-> "finding",
                          number |-> classified_findings[k].number,
                          issue |-> classified_findings[k].issue]]
         IN  MasterRows(findings, c - 1)
             \o (IF classified_findings # << >>
                 THEN <<[kind |-> "group", text |-> Classifications[c]]>>
                      \o rows
                 ELSE << >>)

\* add_findings_master_table
AddFindingsMasterTable(doc, findings) ==
    Append(doc, [kind |-> "master_table",
                 rows |-> MasterRows(findings, Len(Classifications))])

\* uploaded_images.get(finding_num, [])
ImagesGet(uploaded_images, finding_num) ==
    IF finding_num \in DOMAIN uploaded_images
    THEN uploaded_images[finding_num] ELSE << >>

RECURSIVE EvidenceLoop(_, _, _)
\* the loop with an except branch that writes nothing into the cell
EvidenceLoopSilent(finding_images, k, j) ==
    IF j = 0 THEN [cell |-> << >>, tmp |-> {}]
    ELSE LET prev == EvidenceLoop(finding_images, k, j - 1)
         IN  IF finding_images[j] = "good"
             THEN [cell |-> Append(prev.cell, [kind |-> "picture", img |-> j]),
                   tmp |-> prev.tmp]
             ELSE [cell |-> prev.cell,
                   tmp |-> prev.tmp \cup {EvidenceTmp(k, j)}]

\* the loop over finding_images[1..j] of finding k: a picture that embeds
\* gets a paragraph of its own and its temporary file is unlinked; one that
\* does not leaves the except branch to overwrite the text of the cell,
\* with the temporary file still there
EvidenceLoop(finding_images, k, j) ==
    IF j = 0 THEN [cell |-> << >>, tmp |-> {}]
    ELSE LET prev == EvidenceLoop(finding_images, k, j - 1)
         IN  IF finding_images[j] = "good"
             THEN [cell |-> Append(prev.cell, [kind |-> "picture", img |-> j]),
                   tmp |-> prev.tmp]
             ELSE [cell |-> <<[kind |-> "could_not_insert", img |-> j]>>,
                   tmp |-> prev.tmp \cup {EvidenceTmp(k, j)}]

\* the evidence cell of finding k
Evidence(finding_images, k) ==
    IF finding_images = << >>
    THEN [cell |-> <<[kind |-> "no_evidence", img |-> 0]>>, tmp |-> {}]
    ELSE EvidenceLoop(finding_images, k, Len(finding_images))

\* one detail block per finding, r being the outcome of the knowledge-base
\* lookups
DetailBlocks(doc, findings, uploaded_images, r) ==
    LET ev == [k \in 1..Len(findings) |->
                  Evidence(ImagesGet(uploaded_images, findings[k].number), k)]
    IN  [doc |-> doc \o [k \in 1..Len(findings) |->
                            [kind |-> "detail",
                             number |-> findings[k].number,
                             issue |-> findings[k].issue,
                             implication |-> r.out[k].implication,
                             mitigation |-> r.out[k].mitigation,
                             evidence |-> ev[k].cell]],
         tmp |-> UNION {ev[k].tmp : k \in 1..Len(findings)},
         tbl |-> r.tbl, used |-> r.used, calls |-> r.calls]

\* generate_finding_pages: the knowledge-base lookups of FindingLoop and the
\* detail blocks
GenerateFindingPagesDoc(doc, kb, findings, uploaded_images, tbl, used) ==
    DetailBlocks(doc, findings, uploaded_images,
                 FindingLoop(kb, findings, Len(findings), tbl, used))

\* the calls of generate_report that may raise
ReportSteps ==
    <<"create_cover_page", "add_document_info_page",
      "add_assessment_summary", "add_ip_inventory_table",
      "add_findings_master_table", "generate_finding_pages", "save">>

ReportFaults == {"none"} \cup {ReportSteps[k] : k \in 1..Len(ReportSteps)}

\* generate_report left by an exception
Raised(doc, tmp, tbl, used, calls, loaded) ==
    [raised |-> TRUE, doc |-> doc, filename |-> << >>, tmp |-> tmp,
     tbl |-> tbl, used |-> used, calls |-> calls, loaded |-> loaded]

\* doc.save with the flags of the session gone when it raises
SaveReportFlagsLost(fault, app_name, tmp, r6) ==
    IF fault = "save"
    THEN Raised(r6.doc, tmp \cup r6.tmp, r6.tbl, {}, r6.calls, TRUE)
    ELSE [raised |-> FALSE, doc |-> r6.doc, filename |-> Filename(app_name),
          tmp |-> tmp \cup r6.tmp, tbl |-> r6.tbl, used |-> r6.used,
          calls |-> r6.calls, loaded |-> TRUE]

\* doc.save and the file name, r6 being what generate_finding_pages left
SaveReport(fault, app_name, tmp, r6) ==
    IF fault = "save"
    THEN Raised(r6.doc, tmp \cup r6.tmp, r6.tbl, r6.used, r6.calls, TRUE)
    ELSE [raised |-> FALSE, doc |-> r6.doc, filename |-> Filename(app_name),
          tmp |-> tmp \cup r6.tmp, tbl |-> r6.tbl, used |-> r6.used,
          calls |-> r6.calls, loaded |-> TRUE]

\* generate_report(data, uploaded_images, arch_image, logo_image); fault is
\* the call that raises, kb what load_kb_from_db returns, loaded whether it
\* was called, tmp the temporary files that exist at the end
GenerateReport(data, kb, tbl, used, fault) ==
    LET logo_path == data.logo # "none"
        tmp0 == IF logo_path THEN {LogoTmp} ELSE {}
        doc1 == CreateCoverPage(<< >>, logo_path, data.logo)
        \* Path(logo_path).unlink() has run
        doc2 == AddDocumentInfoPage(doc1, FALSE, data.logo)
        r3   == AddAssessmentSummary(doc2, data.arch)
        doc4 == AddIpInventoryTable(r3.doc)
        doc5 == AddFindingsMasterTable(doc4, data.findings)
    IN  CASE fault = "create_cover_page" ->
               Raised(<< >>, tmp0, tbl, used, {}, FALSE)
          [] fault = "add_document_info_page" ->
               Raised(doc1, {}, tbl, used, {}, FALSE)
          [] fault = "add_assessment_summary" ->
               Raised(doc2, {}, tbl, used, {}, FALSE)
          [] fault = "add_ip_inventory_table" ->
               Raised(r3.doc, r3.tmp, tbl, used, {}, FALSE)
          [] fault = "add_findings_master_table" ->
               Raised(doc4, r3.tmp, tbl, used, {}, FALSE)
          [] fault = "generate_finding_pages" ->
               Raised(doc5, r3.tmp, tbl, used, {}, FALSE)
          [] OTHER ->
               SaveReport(fault, data.app_name, r3.tmp,
                          GenerateFindingPagesDoc(doc5, kb, data.findings,
                                                  data.images, tbl, used))

\* can_generate without the check of the issue description
CanGenerateNoIssueCheck(data) ==
    /\ Truthy(data.app_name)
    /\ data.findings # << >>
    /\ \A k \in 1..Len(data.findings) : Truthy(data.findings[k].number)

\* can_generate of main(): the checks in front of the Generate button
CanGenerate(data) ==
    /\ Truthy(data.app_name)
    /\ data.findings # << >>
    /\ \A k \in 1..Len(data.findings) :
          Truthy(data.findings[k].number) /\ Truthy(data.findings[k].issue)

\* the download button placed behind the try block
TryExceptDownloadAfter(r) ==
    [invoked |-> TRUE, report |-> r, download |-> TRUE, error |-> r.raised]

\* try: generate_report, then the download button; except: the error
\* message.  r is how generate_report ended
TryExcept(r) ==
    [invoked |-> TRUE, report |-> r, download |-> ~r.raised,
     error |-> r.raised]

\* the body of `if st.button("Generate Report", ...)'
GenerateButton(data, kb, tbl, used, fault) ==
    TryExcept(GenerateReport(data, kb, tbl, used, fault))

(***************************************************************************)
(* Report requests: the form as it stands when the Generate button is      *)
(* reached.                                                                *)
(***************************************************************************)
MyApp2024 ==
    <<"M", "y", " ", "A", "p", "p", "!", " ", "2", "0", "2", "4">>

\* spaces at both ends and a run of two inside once "!" is gone
PaddedName == <<" ", "a", " ", "!", " ", "b", "-", "_", " ">>

AppNames == {EmptyStr, MyApp2024, PaddedName, <<"!">>}

N1 == <<"1">>
N2 == <<"2">>
N3 == <<"3">>

ReportFinding(number, issue, c) ==
    [number |-> number, issue |-> issue, classification |-> Classifications[c],
     implication |-> EmptyStr, mitigation |-> EmptyStr]

\* st.session_state.findings
ReportFindingLists ==
    {<< >>,
     <<ReportFinding(N1, KXss, 2)>>,
     <<ReportFinding(N1, KXss, 2), ReportFinding(N2, <<"q">>, 3),
       ReportFinding(N3, KXss, 3)>>,
     <<ReportFinding(N1, KXss, 3), ReportFinding(N2, <<"q">>, 1),
       ReportFinding(N1, <<"q">>, 3)>>,
     <<ReportFinding(EmptyStr, KXss, 3)>>,
     <<ReportFinding(N1, KXss, 3), ReportFinding(N2, EmptyStr, 2)>>}

\* st.session_state.images: the evidence pictures by finding number
NoImages == [n \in {} |-> << >>]

ImageSets ==
    {NoImages,
     [n \in {N1, N3} |-> IF n = N1 THEN <<"good", "good">> ELSE <<"good">>],
     [n \in {N1, N2} |-> IF n = N1 THEN <<"good", "bad">> ELSE <<"bad", "good">>]}

ReportData ==
    [app_name : AppNames, findings : ReportFindingLists, images : ImageSets,
     logo : Pictures, arch : Pictures]

\* stores to start from: empty, or one entry
ReportTables == {<< >>, <<Row(KXss, I1, M1, 0)>>}

\* the Generate button of session s; while can_generate is false the button
\* is disabled and the script run ends without a generation.  The record of
\* the request says which names it credited and whether it repeats the
\* request before it, of the same session and for the same form, that ended
\* in the except branch
GenerateRequest(s, data, fault) ==
    /\ Tick
    /\ db_initialized[s]
    /\ IF ~CanGenerate(data)
       THEN /\ fault = "none"
            /\ last' = Op("generate", s, data, [invoked |-> FALSE])
            /\ UNCHANGED <<db, cache, kb_used, called, tmp_files>>
       ELSE \E kb \in LoadKbFromDb(cache, db) :
              \E g \in {GenerateButton(data, kb, db, kb_used[s], fault)} :
              \E r \in {g.report} :
                  /\ cache' = IF r.loaded THEN [filled |-> TRUE, kb |-> kb]
                                ELSE cache
                  /\ db' = r.tbl
                  /\ kb_used' = [kb_used EXCEPT ![s] = r.used]
                  /\ called' = [called EXCEPT ![s] = @ \cup r.calls]
                  /\ tmp_files' = tmp_files \cup r.tmp
                  /\ last' = Op("generate", s, data,
                                 [invoked |-> g.invoked, raised |-> r.raised,
                                  fault |-> fault,
                                  download |-> g.download, error |-> g.error,
                                  doc |-> r.doc, filename |-> r.filename,
                                  credited |-> r.used \ kb_used[s],
                                  retry |-> /\ last.op = "generate"
                                            /\ last.s = s /\ last.arg = data
                                            /\ last.ret.invoked
                                            /\ last.ret.raised])
    /\ UNCHANGED <<db_initialized, kb_file, conns>>

ReportInit ==
    /\ db \in ReportTables
    /\ cache = EmptyCache
    /\ db_initialized = [s \in Sessions |-> TRUE]
    /\ kb_used = [s \in Sessions |-> {}]
    /\ kb_file = NoFile
    /\ called = [s \in Sessions |-> {}]
    /\ last = Op("start", 0, << >>, << >>)
    /\ ops = 0
    /\ tmp_files = {}
    /\ conns = [s \in Sessions |-> Idle]

\* one request on each store
ReportNext ==
    /\ ops = 0
    /\ \E s \in Sessions, data \in ReportData, fault \in ReportFaults :
          GenerateRequest(s, data, fault)

SpecReport == ReportInit /\ [][ReportNext]_vars

(***************************************************************************)
(* A generation and the one after it: two requests on forms without        *)
(* pictures.                                                               *)
(***************************************************************************)
RetryData ==
    {data \in ReportData :
        /\ data.app_name = MyApp2024
        /\ data.images = NoImages /\ data.logo = "none" /\ data.arch = "none"
        /\ CanGenerate(data)}

RetryNext ==
    /\ ops <= 1
    /\ \E s \in Sessions, data \in RetryData, fault \in ReportFaults :
          GenerateRequest(s, data, fault)

SpecRetry == ReportInit /\ [][RetryNext]_vars

(***************************************************************************)
(* add_to_kb_db step by step, called by several sessions at a time.  Each  *)
(* call has a connection of its own; the INSERT opens a transaction that   *)
(* holds the write lock of the database file until commit, and a           *)
(* connection that does not get the lock within the busy timeout raises    *)
(* "database is locked".                                                   *)
(***************************************************************************)
WriterEntries ==
    {KbEntry(KXss, I1, M1), KbEntry(KXss, I2, M2), KbEntry(KXs, I1, M1)}

\* every connection takes the write lock it asks for
WriteLockFreeAlways(cs, s) == TRUE

\* no other connection has a transaction open
WriteLockFree(cs, s) == \A t \in Sessions \ {s} : cs[t].pc # "executed"

\* sqlite3.connect(DB_PATH); conn.cursor()
WriterConnect(s, e) ==
    /\ Tick
    /\ conns[s].pc = "idle"
    /\ conns' = [conns EXCEPT ![s] =
                    [pc |-> "connected", issue_name |-> e.key,
                     implication |-> e.implication,
                     mitigation |-> e.mitigation, txn |-> << >>]]
    /\ UNCHANGED <<db, cache, db_initialized, kb_used, kb_file, called, last,
                   tmp_files>>

\* cursor.execute(INSERT ... ON CONFLICT ... DO UPDATE) with the write lock:
\* the statement is carried out inside the transaction of the connection
WriterExecute(s) ==
    /\ conns[s].pc = "connected"
    /\ WriteLockFree(conns, s)
    /\ conns' = [conns EXCEPT ![s].pc = "executed",
                              ![s].txn = Upsert(db, conns[s].issue_name,
                                                conns[s].implication,
                                                conns[s].mitigation)]
    /\ UNCHANGED <<ops, db, cache, db_initialized, kb_used, kb_file, called,
                   last, tmp_files>>

\* cursor.execute while another connection keeps the write lock beyond the
\* busy timeout: sqlite3.OperationalError, caught by `except Exception'
WriterLocked(s) ==
    /\ conns[s].pc = "connected"
    /\ ~WriteLockFree(conns, s)
    /\ conns' = [conns EXCEPT ![s].pc = "failed"]
    /\ UNCHANGED <<ops, db, cache, db_initialized, kb_used, kb_file, called,
                   last, tmp_files>>

\* conn.commit(); success = True
WriterCommit(s) ==
    /\ conns[s].pc = "executed"
    /\ db' = conns[s].txn
    /\ conns' = [conns EXCEPT ![s].pc = "committed"]
    /\ UNCHANGED <<ops, cache, db_initialized, kb_used, kb_file, called, last,
                   tmp_files>>

\* finally: conn.close(); return success
WriterClose(s) ==
    /\ conns[s].pc \in {"committed", "failed"}
    /\ conns' = [conns EXCEPT ![s] = Idle]
    /\ last' = Op("add", s,
                  KbEntry(conns[s].issue_name, conns[s].implication,
                          conns[s].mitigation),
                  IF conns[s].pc = "committed" THEN "True" ELSE "False")
    /\ UNCHANGED <<ops, db, cache, db_initialized, kb_used, kb_file, called,
                   tmp_files>>

\* stores the calls start on: empty, one entry, two entries that have been
\* used
WriterTables ==
    {<< >>, <<Row(KXss, I1, M1, 0)>>,
     <<Row(KXss, I1, M1, 2), Row(KXs, I2, M2, 3)>>}

WritersInit ==
    /\ db \in WriterTables
    /\ cache = EmptyCache
    /\ db_initialized = [s \in Sessions |-> TRUE]
    /\ kb_used = [s \in Sessions |-> {}]
    /\ kb_file = NoFile
    /\ called = [s \in Sessions |-> {}]
    /\ last = Op("start", 0, << >>, << >>)
    /\ ops = 0
    /\ tmp_files = {}
    /\ conns = [s \in Sessions |-> Idle]

WritersNext ==
    \E s \in Sessions :
        \/ \E e \in WriterEntries : WriterConnect(s, e)
        \/ WriterExecute(s)
        \/ WriterLocked(s)
        \/ WriterCommit(s)
        \/ WriterClose(s)

SpecWriters == WritersInit /\ [][WritersNext]_vars

(***************************************************************************)
(* Properties                                                              *)
(***************************************************************************)
\* usage_count of the row stored under n (0 when there is none)
Usage(tbl, n) ==
    IF Stored(tbl, n)
    THEN tbl[CHOOSE k \in 1..Len(tbl) : tbl[k].issue_name = n].usage_count
    ELSE 0

\* the issue_name -> {implication, mitigation} mapping a table holds
Mapping(tbl) ==
    {<<tbl[k].issue_name, tbl[k].implication, tbl[k].mitigation>> :
        k \in 1..Len(tbl)}

\* number of entries a loaded mapping has under key n
KeyCount(kb, n) == Cardinality({j \in 1..Len(kb) : kb[j].key = n})

\* C1: add_to_kb_db that returned success, followed by load_kb_from_db():
\* the mapping has exactly one entry for the issue_name and it carries the
\* implication and mitigation of that upsert, also when the cache is filled.
C1_UpsertThenLoad ==
    [][(last.op = "add" /\ last.ret = "True" /\ last'.op = "load")
        => /\ KeyCount(last'.ret, last.arg.key) = 1
           /\ DictGet(last'.ret, last.arg.key) = last.arg]_vars

\* C2: the knowledge_base table holds at most one row per issue_name.
C2_UniqueIssueName ==
    \A a, b \in 1..Len(db) : a # b => db[a].issue_name # db[b].issue_name

\* an upsert has just succeeded on a name that was stored already (its row
\* has been credited), next to other rows
C2_Witness ==
    /\ last.op = "add" /\ last.ret = "True"
    /\ Usage(db, last.arg.key) > 0
    /\ Len(db) >= 2

\* C3: no operation lowers a usage_count or removes an entry.
C3_UsageMonotone ==
    [][\A k \in 1..Len(db) :
          \E j \in 1..Len(db') :
             /\ db'[j].issue_name = db[k].issue_name
             /\ db'[j].usage_count >= db[k].usage_count]_vars

\* an import has just upserted a credited entry, with a new text
C3_Witness ==
    /\ last.op = "import" /\ last.ret[1] >= 1
    /\ \E k \in 1..Len(db) :
          /\ db[k].usage_count >= 1
          /\ db[k].implication = I2
          /\ \E j \in last.ret[2] :
                JsonItems(last.arg[1].members, Len(last.arg[1].members))[j].key
                    = db[k].issue_name

\* C4: the usage_count of an entry is the number of sessions that called
\* increment_kb_usage for it at least once: repeated calls of one session
\* count once, calls of distinct sessions all count.
C4_OncePerSession ==
    \A k \in 1..Len(db) :
        db[k].usage_count =
            Cardinality({s \in Sessions : db[k].issue_name \in called[s]})

\* a session has just called twice for one entry, in one report whose two
\* findings match it, after another session had called for it too
C4_Witness ==
    /\ last.op = "render" /\ Len(last.arg) = 2
    /\ \E n \in KeyNames :
          /\ Truthy(n)
          /\ \A k \in 1..2 :
                /\ Resolve(cache.kb, last.arg[k]).call
                /\ Resolve(cache.kb, last.arg[k]).key = n
          /\ Usage(db, n) = 2
          /\ \E s \in Sessions : s # last.s /\ n \in called[s]

\* the expected text of one field: explicit value, exact key, first key
\* matching as a substring, placeholder
Expected(kb, issue, explicit, field, placeholder) ==
    IF Truthy(explicit) THEN explicit
    ELSE IF HasKey(kb, issue) THEN DictGet(kb, issue)[field]
    ELSE LET hits == {j \in 1..Len(kb) : SubstrMatch(kb[j].key, issue)}
         IN  IF hits # {} THEN kb[SetMin(hits)][field] ELSE placeholder

\* C5: implication and mitigation of every finding follow the priority
\* explicit value, exact KB key, first KB key (iteration order) matching as
\* a case-insensitive substring either way, placeholder.
C5_ResolutionOrder ==
    last.op = "render" =>
        \A k \in 1..Len(last.arg) :
            /\ last.ret[k].implication =
                 Expected(cache.kb, last.arg[k].issue,
                          last.arg[k].implication, "implication",
                          NoImplication)
            /\ last.ret[k].mitigation =
                 Expected(cache.kb, last.arg[k].issue,
                          last.arg[k].mitigation, "mitigation",
                          NoMitigation)

\* findings of the render step that have no explicit text and whose issue
\* is a key of the loaded mapping
ExactHits(findings, kb) ==
    {k \in 1..Len(findings) :
        /\ ~Truthy(findings[k].implication)
        /\ ~Truthy(findings[k].mitigation)
        /\ HasKey(kb, findings[k].issue)}

\* C6 as stated: such a finding gets the KB text and the entry's
\* usage_count rises by exactly 1 over the render, whatever the session did
\* before.
C6_OneIncrementPerRender ==
    [][last'.op = "render" =>
        \A k \in ExactHits(last'.arg, cache'.kb) :
            LET n == last'.arg[k].issue
            IN  /\ last'.ret[k].implication = DictGet(cache'.kb, n).implication
                /\ last'.ret[k].mitigation = DictGet(cache'.kb, n).mitigation
                /\ Usage(db', n) = Usage(db, n) + 1]_vars

\* C6 amended: the usage_count rises by exactly 1 when the session had not
\* credited the issue_name before and stays as it is when it had, also when
\* several findings of the report match the entry.
C6_OneIncrementPerSession ==
    [][last'.op = "render" =>
        \A k \in ExactHits(last'.arg, cache'.kb) :
            LET n == last'.arg[k].issue
            IN  /\ last'.ret[k].implication = DictGet(cache'.kb, n).implication
                /\ last'.ret[k].mitigation = DictGet(cache'.kb, n).mitigation
                /\ Usage(db', n) =
                     Usage(db, n) + (IF n \in kb_used[last'.s] THEN 0 ELSE 1)]_vars

\* two findings of one report have just matched the same entry, credited
\* once
C6_Witness ==
    /\ last.op = "render" /\ Len(last.arg) = 2
    /\ ExactHits(last.arg, cache.kb) = {1, 2}
    /\ last.arg[1].issue = last.arg[2].issue
    /\ Usage(db, last.arg[1].issue) = 1
    /\ last.ret[2].implication = DictGet(cache.kb, last.arg[1].issue).implication

\* C7: the export, imported into an empty store, gives the mapping of the
\* store it was taken from.
C7_RoundTrip ==
    last.op = "export" =>
        Mapping(ImportKbFromJson(<< >>, last.ret,
                                 NoFaults(Len(last.ret.members))).tbl)
            = Mapping(db)

\* an entry with both fields non-empty strings
WellFormed(e) ==
    /\ e.isdict
    /\ e.implication.kind = "str" /\ Truthy(e.implication.s)
    /\ e.mitigation.kind = "str" /\ Truthy(e.mitigation.s)

\* C8: an import stores every well-formed entry whose upsert met no storage
\* fault, whatever malformed entries surround it, leaves alone the keys of
\* malformed entries, and returns the number of entries it upserted.
C8_ImportSkipsAndCounts ==
    [][last'.op = "import" /\ last'.arg[1].top = "object" =>
        LET items  == JsonItems(last'.arg[1].members,
                                Len(last'.arg[1].members))
            faults == last'.arg[2]
        IN  /\ \A k \in 1..Len(items) :
                  IF WellFormed(items[k])
                  THEN faults[k] = "none" =>
                          <<items[k].key, items[k].implication.s,
                            items[k].mitigation.s>> \in Mapping(db')
                  ELSE \A t \in Mapping(db') :
                          t[1] = items[k].key => t \in Mapping(db)
            /\ last'.ret[1] = Cardinality(last'.ret[2])]_vars

\* C9: a session's first init_database on an empty table inserts every
\* entry of knowledge_base.json whose fields are both non-empty; every
\* other call leaves the table as it is.
C9_BulkLoadOnlyWhenEmpty ==
    [][last'.op = "init" =>
        IF ~db_initialized[last'.s] /\ Len(db) = 0
        THEN kb_file.exists /\ kb_file.doc.top = "object" =>
               LET items == JsonItems(kb_file.doc.members,
                                      Len(kb_file.doc.members))
               IN  \A k \in 1..Len(items) :
                      WellFormed(items[k]) =>
                         <<items[k].key, items[k].implication.s,
                           items[k].mitigation.s>> \in Mapping(db')
        ELSE db' = db]_vars

\* C10: a query shorter than 3 characters gets the empty sequence, and a
\* search leaves the table, the cache and the session flags as they are.
C10_ShortQueryEmpty ==
    [][last'.op = "search" =>
        /\ Len(last'.arg[1]) < 3 => last'.ret = << >>
        /\ UNCHANGED <<db, cache, kb_used>>]_vars

\* a two-character query has just been answered while the table holds an
\* entry of exactly that name
C10_Witness ==
    /\ last.op = "search"
    /\ last.arg[1] = KXs
    /\ Stored(db, KXs)
    /\ last.ret = << >>

\* the candidates search_kb_db retained for the last search
Retained == Matches(last.arg[1], db, Len(db))

\* C11: a search returns min(top_n, number of retained candidates) results,
\* each a retained candidate, sorted by non-increasing score, and no
\* retained candidate left out has a score strictly greater than a returned
\* one.
C11_TopNByScore ==
    last.op = "search" /\ Len(last.arg[1]) >= 3 =>
        LET res == last.ret
            top_n == last.arg[2]
        IN  /\ Len(res) = IF top_n < Len(Retained) THEN top_n ELSE Len(Retained)
            /\ \A j \in 1..Len(res) :
                  \E k \in 1..Len(Retained) : Retained[k] = res[j]
            /\ \A i, j \in 1..Len(res) :
                  i < j => ~FracLess(res[i].score, res[j].score)
            /\ \A k \in 1..Len(Retained) :
                  (\A j \in 1..Len(res) : res[j] # Retained[k]) =>
                      \A j \in 1..Len(res) :
                          ~FracLess(res[j].score, Retained[k].score)

\* three candidates of different scores, stored lowest first, have just been
\* cut to the best two
C11_Witness ==
    /\ last.op = "search" /\ last.arg[2] = 2
    /\ Len(Retained) = 3 /\ Len(last.ret) = 2
    /\ FracLess(Retained[1].score, Retained[2].score)
    /\ FracLess(Retained[2].score, Retained[3].score)

\* the store holds "SQL Injection" with usage_count 0, and the last search
\* asked for "SQL Injection" and at least one result
SqlInjectionSearched ==
    /\ last.op = "search" /\ last.arg[1] = SqlInjection /\ last.arg[2] >= 1
    /\ \E k \in 1..Len(db) :
          db[k].issue_name = SqlInjection /\ db[k].usage_count = 0

\* C12 as stated: whatever else the store holds, the entry "SQL Injection"
\* is the first result, with score >= 1.0.
C12_ExactMatchFirst ==
    SqlInjectionSearched =>
        /\ last.ret[1].issue = SqlInjection
        /\ ~FracLess(last.ret[1].score, Frac(1, 1))

\* C12 amended: the entry scores 1.15, the first result scores at least
\* that, and the entry is the first result exactly when no row stored before
\* it scores 1.15 or more and no row stored after it scores more than 1.15.
C12_ExactMatchFirstUnlessOutranked ==
    SqlInjectionSearched =>
        LET k == CHOOSE k \in 1..Len(db) : db[k].issue_name = SqlInjection
            own == Frac(115, 100)
        IN  /\ Score(SqlInjection, db[k]) = own
            /\ ~FracLess(last.ret[1].score, own)
            /\ last.ret[1].issue = SqlInjection <=>
                  /\ \A j \in 1..(k - 1) :
                        FracLess(Score(SqlInjection, db[j]), own)
                  /\ \A j \in (k + 1)..Len(db) :
                        ~FracLess(own, Score(SqlInjection, db[j]))

\* the entry has just come first although a lower-scoring entry is stored
\* before it and a much-used one after it
C12_Witness ==
    /\ SqlInjectionSearched
    /\ Len(db) = 3 /\ db[2].issue_name = SqlInjection
    /\ db[3].usage_count > 0
    /\ last.ret[1].issue = SqlInjection

\* the last request ran generate_report at least up to the findings master
\* table
MasterTableBuilt ==
    /\ last.op = "generate" /\ last.ret.invoked
    /\ Len(last.ret.doc) >= 6 /\ last.ret.doc[6].kind = "master_table"

\* the positions of the header row of classification c in rows
HeaderRows(rows, c) ==
    {i \in 1..Len(rows) :
        rows[i].kind = "group" /\ rows[i].text = Classifications[c]}

\* the positions of the findings of classification c
Classified(findings, c) ==
    {k \in 1..Len(findings) : findings[k].classification = Classifications[c]}

\* the position of the j-th finding of classification c
NthClassified(findings, c, j) ==
    CHOOSE k \in Classified(findings, c) :
        Cardinality({m \in Classified(findings, c) : m <= k}) = j

\* C13: in the findings master table a classification has a header row
\* exactly when some finding has it, and then only one; the headers stand in
\* the order Mobile Application Vulnerability, Server Vulnerabilities, Web
\* Vulnerabilities; the rows behind a header, up to the next header or the
\* end of the table, are the findings of that classification in input order.
C13_MasterTableGroups ==
    MasterTableBuilt =>
        LET findings == last.arg.findings
            rows == last.ret.doc[6].rows
            cs == 1..Len(Classifications)
        IN  /\ \A c \in cs :
                  /\ HeaderRows(rows, c) # {} <=> Classified(findings, c) # {}
                  /\ Cardinality(HeaderRows(rows, c)) <= 1
            /\ \A i \in 1..Len(rows) :
                  rows[i].kind = "group" =>
                      \E c \in cs : i \in HeaderRows(rows, c)
            /\ \A c, d \in cs :
                  c < d => \A i \in HeaderRows(rows, c),
                              j \in HeaderRows(rows, d) : i < j
            /\ \A c \in cs : \A i \in HeaderRows(rows, c) :
                  LET n == Cardinality(Classified(findings, c))
                  IN  /\ i + n <= Len(rows)
                      /\ \A j \in 1..n :
                            LET f == findings[NthClassified(findings, c, j)]
                            IN  /\ rows[i + j].kind = "finding"
                                /\ rows[i + j].number = f.number
                                /\ rows[i + j].issue = f.issue
                      /\ i + n < Len(rows) => rows[i + n + 1].kind = "group"

\* one Server finding and two Web findings have given exactly two groups,
\* Server then Web
C13_Witness ==
    /\ MasterTableBuilt
    /\ Len(last.arg.findings) = 3
    /\ Cardinality(Classified(last.arg.findings, 2)) = 1
    /\ Cardinality(Classified(last.arg.findings, 3)) = 2
    /\ LET rows == last.ret.doc[6].rows
       IN  /\ Len(rows) = 5
           /\ rows[1].kind = "group" /\ rows[1].text = Classifications[2]
           /\ rows[3].kind = "group" /\ rows[3].text = Classifications[3]
           /\ HeaderRows(rows, 1) = {}

\* the last request ran generate_report
ReportInvoked == last.op = "generate" /\ last.ret.invoked

\* the kinds of the blocks of a complete report on findings
ExpectedKinds(findings) ==
    <<"cover", "sectPr", "doc_info", "summary", "ip_table", "master_table">>
    \o [k \in 1..Len(findings) |-> "detail"]

ReportReturned == ReportInvoked /\ ~last.ret.raised

\* the positions of the characters of name that lie in [0-9a-zA-Z-_ ]
InClass(name) ==
    {i \in 1..Len(name) :
        name[i] \in Digits \cup LowerLetters \cup UpperLetters
                    \cup {"-", "_", " "}}

\* the characters of name at the positions pos, in order, every space
\* replaced by an underscore
Underscored(name, pos) ==
    [j \in 1..Cardinality(pos) |->
        LET i == CHOOSE i \in pos : Cardinality({m \in pos : m <= i}) = j
        IN  IF name[i] = " " THEN "_" ELSE name[i]]

\* C15 as stated: the file name is the application name without the
\* characters outside [0-9a-zA-Z-_ ] and with every space replaced by an
\* underscore, followed by "_v1.0.docx".
C15_FilenameEverySpace ==
    ReportReturned =>
        last.ret.filename =
            Underscored(last.arg.app_name, InClass(last.arg.app_name))
            \o <<"_", "v1.0", ".docx">>

\* C15 amended: of the characters in [0-9a-zA-Z-_ ] the spaces in front of
\* the first and behind the last character that is not a space are removed
\* as well; the spaces in between become underscores.  "My App! 2024" gives
\* "My_App_2024_v1.0.docx".
C15_FilenameStripped ==
    ReportReturned =>
        LET name == last.arg.app_name
            inner == {i \in InClass(name) :
                         /\ \E a \in InClass(name) : a <= i /\ name[a] # " "
                         /\ \E b \in InClass(name) : b >= i /\ name[b] # " "}
        IN  /\ last.ret.filename =
                   Underscored(name, inner) \o <<"_", "v1.0", ".docx">>
            /\ name = MyApp2024 =>
                   last.ret.filename =
                       <<"M", "y", "_", "A", "p", "p", "_", "2", "0", "2", "4",
                         "_", "v1.0", ".docx">>

\* a report has been named after " a ! b-_ ", a name with spaces at both
\* ends
C15_Witness ==
    /\ ReportReturned
    /\ last.arg.app_name = PaddedName
    /\ last.ret.filename = <<"a", "_", "_", "b", "-", "_", "_", "v1.0", ".docx">>

\* C16: generate_report is invoked only when the application name is not
\* empty, there is at least one finding and every finding has a number and
\* an issue description; a request that fails one of these checks is
\* refused and changes neither the store nor the temporary files.
C16_RefusedUnlessValid ==
    [][last'.op = "generate" =>
          LET data == last'.arg
              missing ==
                  \/ data.app_name = EmptyStr
                  \/ Len(data.findings) = 0
                  \/ \E k \in 1..Len(data.findings) :
                        \/ data.findings[k].number = EmptyStr
                        \/ data.findings[k].issue = EmptyStr
          IN  /\ missing => ~last'.ret.invoked
              /\ last'.ret.invoked => ~missing
              /\ ~last'.ret.invoked => UNCHANGED <<db, tmp_files, kb_used>>]_vars

\* a request has been refused because its second finding has no issue
\* description, everything else being filled in
C16_Witness ==
    /\ last.op = "generate" /\ ~last.ret.invoked
    /\ last.arg.app_name # EmptyStr
    /\ Len(last.arg.findings) = 2
    /\ last.arg.findings[1].number # EmptyStr
    /\ last.arg.findings[1].issue # EmptyStr
    /\ last.arg.findings[2].number # EmptyStr
    /\ last.arg.findings[2].issue = EmptyStr

\* C17: when generate_report raises, the request reports an error and offers
\* no download; a download is offered only when generate_report returned,
\* and then with the file name it returned.
C17_NoDownloadAfterFailure ==
    ReportInvoked =>
        /\ last.ret.raised => last.ret.error /\ ~last.ret.download
        /\ last.ret.download =>
               /\ ~last.ret.raised /\ ~last.ret.error
               /\ last.ret.filename # << >>

\* doc.save has raised after every block was added: an error and no
\* download
C17_Witness ==
    /\ ReportInvoked /\ last.ret.raised /\ last.ret.fault = "save"
    /\ Len(last.ret.doc) = Len(ExpectedKinds(last.arg.findings))
    /\ last.ret.error /\ ~last.ret.download

\* C18 as stated: no temporary file of generate_report exists once it has
\* returned or failed.
C18_NoTempFileLeft ==
    last.op = "generate" => tmp_files = {}

\* C20 as stated: every entry of the store has a non-empty issue_name, a
\* non-empty implication and a non-empty mitigation.
C20_EntriesNonEmpty ==
    \A k \in 1..Len(db) :
        /\ db[k].issue_name # EmptyStr
        /\ db[k].implication # EmptyStr
        /\ db[k].mitigation # EmptyStr

\* C19: whatever the interleaving of the add_to_kb_db calls of the
\* sessions, no two entries of the store ever have the same issue_name, and
\* the store changes only by the commit of one call, after which it has
\* exactly one entry of that call's issue_name, with the implication and the
\* mitigation of that call, every other entry being as it was.
C19_ConcurrentUpserts ==
    /\ [](\A j, k \in 1..Len(db) :
             db[j].issue_name = db[k].issue_name => j = k)
    /\ [][db' # db =>
            \E s \in Sessions :
                /\ conns[s].pc = "executed" /\ conns'[s].pc = "committed"
                /\ LET n == conns[s].issue_name
                       hits == {k \in 1..Len(db') : db'[k].issue_name = n}
                   IN  /\ Cardinality(hits) = 1
                       /\ \A k \in hits :
                             /\ db'[k].implication = conns[s].implication
                             /\ db'[k].mitigation = conns[s].mitigation
                       /\ \A k \in 1..Len(db) :
                             db[k].issue_name # n => /\ k <= Len(db')
                                                     /\ db'[k] = db[k]
                       /\ \A k \in 1..Len(db') :
                             db'[k].issue_name # n => /\ k <= Len(db)
                                                      /\ db[k] = db'[k]]_vars

\* two sessions are inside add_to_kb_db on the same issue_name with
\* different texts at the same time and both have committed: one entry, with
\* the texts of one of the calls
C19_Witness ==
    /\ \A s \in {1, 2} : conns[s].pc = "committed"
    /\ conns[1].issue_name = conns[2].issue_name
    /\ conns[1].implication # conns[2].implication
    /\ Len(db) = 1
    /\ db[1].issue_name = conns[1].issue_name
    /\ \E s \in {1, 2} : /\ db[1].implication = conns[s].implication
                         /\ db[1].mitigation = conns[s].mitigation

\* C21 as stated: add_to_kb_db returns True or False and never raises, and
\* a call that returns False leaves the store as it was.
C21_NeverRaises ==
    [][ops' # ops /\ last'.op = "add" =>
          /\ last'.ret \in {"True", "False"}
          /\ last'.ret = "False" => db' = db]_vars

\* the last operation was a search that got past the length check and asked
\* for at least as many results as the store has entries
SearchedAll ==
    last.op = "search" /\ Len(last.arg[1]) >= 3 /\ last.arg[2] >= Len(db)

\* the positions of the results that stand for the entry row
ResultsOf(row) ==
    {j \in 1..Len(last.ret) : last.ret[j].issue = row.issue_name}

\* C22: an entry is returned exactly when its score is strictly greater than
\* 0.2; every returned score is greater than 0.2 and an entry that scores
\* exactly 0.2 is not returned.
C22_Threshold ==
    SearchedAll =>
        /\ \A k \in 1..Len(db) :
              LET score == Score(last.arg[1], db[k])
              IN  /\ ResultsOf(db[k]) # {} <=> FracLess(Frac(1, 5), score)
                  /\ score = Frac(1, 5) => ResultsOf(db[k]) = {}
        /\ \A j \in 1..Len(last.ret) : FracLess(Frac(1, 5), last.ret[j].score)

\* of two entries the first scores exactly 0.2 and is left out, the second
\* is returned
C22_Witness ==
    /\ SearchedAll /\ Len(db) = 2 /\ Len(last.ret) = 1
    /\ Score(last.arg[1], db[1]) = Frac(1, 5)
    /\ last.ret[1].issue = db[2].issue_name
    /\ FracLess(Frac(1, 5), last.ret[1].score)

\* the words of a query: the positions a word starts at and, for a start,
\* the word
WordStarts(q) ==
    {a \in 1..Len(q) : q[a] # " " /\ (a = 1 \/ q[a - 1] = " ")}

WordAt(q, a) ==
    LET b == CHOOSE b \in a..Len(q) :
                 /\ \A c \in a..b : q[c] # " "
                 /\ b = Len(q) \/ q[b + 1] = " "
    IN  SubSeq(q, a, b)

\* the query words longer than 3 characters that occur, letter case aside,
\* in a field of row, each occurrence in the query counted
BonusWords(q, row) ==
    {a \in WordStarts(q) :
        /\ Len(WordAt(q, a)) >= 4
        /\ \E field \in {row.issue_name, row.implication, row.mitigation} :
              IsSubstr(Lower(WordAt(q, a)), Lower(field))}

\* the score of row for q without the keyword bonus
ScoreWithoutKeywords(q, row) ==
    FracAdd(FracMax(Ratio(Lower(q), Lower(row.issue_name)),
                    FracMax(FracMul(Ratio(Lower(q), Lower(row.implication)),
                                    Frac(4, 5)),
                            FracMul(Ratio(Lower(q), Lower(row.mitigation)),
                                    Frac(4, 5)))),
            IF row.usage_count >= 10 THEN Frac(1, 10)
            ELSE Frac(row.usage_count, 100))

\* C23: the score of an entry exceeds its similarity plus usage bonus by 0.15
\* for every query word, repeated words included, that is longer than 3
\* characters and occurs in the issue_name, the implication or the
\* mitigation whatever the letter case; a word of 3 characters or fewer
\* adds nothing and a word found in several fields counts once.
C23_KeywordBonus ==
    SearchedAll =>
        \A k \in 1..Len(db) :
            Score(last.arg[1], db[k]) =
                FracAdd(ScoreWithoutKeywords(last.arg[1], db[k]),
                        Frac(15 * Cardinality(BonusWords(last.arg[1], db[k])),
                             100))

\* "xssq xs xssq" has been looked up on an entry that has "xssq" as name
\* and as implication: 0.5 for the similarity and 0.15 twice
C23_Witness ==
    /\ SearchedAll /\ last.arg[1] = QRepeated
    /\ Len(last.ret) >= 1
    /\ last.ret[1].issue = KXssq /\ last.ret[1].implication = KXssq
    /\ last.ret[1].score = Frac(4, 5)

\* C24: the score of an entry is the score of the same entry with
\* usage_count 0 plus usage_count * 0.01, and plus 0.1 from usage_count 10
\* on, so that it is the same for every usage_count >= 10 and never falls
\* when usage_count grows.
C24_UsageBonus ==
    SearchedAll =>
        \A k \in 1..Len(db) :
            LET q == last.arg[1]
                at(u) == Score(q, [db[k] EXCEPT !.usage_count = u])
                u == db[k].usage_count
            IN  /\ at(u) = FracAdd(at(0), IF u >= 10 THEN Frac(1, 10)
                                          ELSE Frac(u, 100))
                /\ u >= 10 => at(u) = at(10)
                /\ u > 0 => ~FracLess(at(u), at(u - 1))
                /\ \A j \in ResultsOf(db[k]) : last.ret[j].score = at(u)

\* entries with usage_count 11 and 25 that differ in nothing else the score
\* depends on have been returned with the same score, 1.1
C24_Witness ==
    /\ SearchedAll /\ last.arg[1] = KXss /\ Len(last.ret) = 1
    /\ last.ret[1].issue = KXss /\ last.ret[1].usage_count = 25
    /\ last.ret[1].score = Frac(11, 10)
    /\ Score(KXss, Row(KXss, I1, M1, 11)) = last.ret[1].score

\* the place in the store of the entry a result stands for
StoredAt(r) == CHOOSE k \in 1..Len(db) : db[k].issue_name = r.issue

Supplied(k) ==
    IF last.arg.findings[k].number \in DOMAIN last.arg.images
    THEN last.arg.images[last.arg.findings[k].number] ELSE << >>

\* C26: a generation in which no call raises returns a document with a
\* detail block for every finding, whatever the images are.  The evidence
\* cell of a finding holds its images in the order supplied, one paragraph
\* each, when all of them embed; the placeholder for no evidence when none
\* was supplied; and the explanatory string of an image that does not embed
\* when there is one.
C26_EvidenceCell ==
    ReportInvoked /\ last.ret.fault = "none" =>
        /\ ~last.ret.raised
        /\ Len(last.ret.doc) = 6 + Len(last.arg.findings)
        /\ \A k \in 1..Len(last.arg.findings) :
              LET cell == last.ret.doc[6 + k].evidence
                  imgs == Supplied(k)
                  bad == {j \in 1..Len(imgs) : imgs[j] # "good"}
              IN  /\ last.ret.doc[6 + k].number = last.arg.findings[k].number
                  /\ imgs = << >> =>
                         cell = <<[kind |-> "no_evidence", img |-> 0]>>
                  /\ imgs # << >> /\ bad = {} =>
                         cell = [j \in 1..Len(imgs) |->
                                    [kind |-> "picture", img |-> j]]
                  /\ bad # {} =>
                         \E c \in 1..Len(cell) :
                             /\ cell[c].kind = "could_not_insert"
                             /\ cell[c].img \in bad

\* the second image of the first finding and the first image of the second
\* finding did not embed: both cells say so, and the third finding, without
\* images, was rendered with the placeholder
C26_Witness ==
    /\ ReportInvoked /\ ~last.ret.raised
    /\ Len(last.arg.findings) = 3
    /\ Supplied(1) = <<"good", "bad">>
    /\ Supplied(2) = <<"bad", "good">>
    /\ Supplied(3) = << >>
    /\ last.ret.doc[7].evidence = <<[kind |-> "could_not_insert", img |-> 2]>>
    /\ last.ret.doc[8].evidence = <<[kind |-> "could_not_insert", img |-> 1],
                                    [kind |-> "picture", img |-> 2]>>
    /\ last.ret.doc[9].evidence = <<[kind |-> "no_evidence", img |-> 0]>>

FailedAfterCredits ==
    ReportInvoked /\ last.ret.raised /\ last.ret.fault = "save"

\* C28: when a generation has failed after generate_finding_pages, the
\* entries it matched keep their incremented usage_count and the session
\* keeps their flags; the same generation requested again by the same
\* session changes neither a usage_count nor a flag, so that after the
\* failure and the retry every entry the session matched has been
\* incremented exactly once.
C28_CreditsKept ==
    /\ [](FailedAfterCredits /\ ops = 1 =>
             /\ last.ret.credited \subseteq kb_used[last.s]
             /\ \A k \in 1..Len(db) :
                   db[k].usage_count =
                       IF db[k].issue_name \in last.ret.credited
                       THEN 1 ELSE 0)
    /\ [][/\ FailedAfterCredits /\ ops = 1 /\ ops' = 2
          /\ last'.s = last.s /\ last'.arg = last.arg
          => /\ db' = db
             /\ kb_used' = kb_used
             /\ last'.ret.credited = {}
             /\ \A k \in 1..Len(db') :
                   db'[k].usage_count =
                       IF db'[k].issue_name \in called'[last.s]
                       THEN 1 ELSE 0]_vars

\* a generation that had credited "xss" and failed has been repeated and
\* has returned a report: it matched "xss" again, credited nothing, and the
\* usage_count of "xss" is 1
C28_Witness ==
    /\ ReportReturned /\ last.ret.retry /\ ops = 2
    /\ last.ret.credited = {}
    /\ called[last.s] = {KXss} /\ kb_used[last.s] = {KXss}
    /\ Len(db) = 1 /\ db[1].issue_name = KXss /\ db[1].usage_count = 1

\* a logo was supplied with the last request and generate_report got as far
\* as the document-info page
LogoSupplied ==
    ReportInvoked /\ last.arg.logo # "none" /\ Len(last.ret.doc) >= 3

\* C29 as stated: the logo cell of the document-info page holds "[Logo]"
\* and the cover page holds the picture.
C29_LogoOnCoverOnly ==
    LogoSupplied =>
        /\ last.ret.doc[3].logo = "[Logo]"
        /\ last.ret.doc[1].logo = "picture"

\* C29 amended: the temporary logo file is gone when the document-info page
\* is built, whose logo cell holds "[Logo]" and never the picture; the cover
\* page holds the picture when the logo embeds and "[Company Logo]" when it
\* does not.
C29_LogoGoneBeforeDocInfo ==
    LogoSupplied =>
        /\ LogoTmp \notin tmp_files
        /\ last.ret.doc[3].logo = "[Logo]"
        /\ last.ret.doc[1].logo =
               IF last.arg.logo = "good" THEN "picture" ELSE "[Company Logo]"

\* a report with a logo that embeds: the picture on the cover, "[Logo]" on
\* the document-info page
C29_Witness ==
    /\ LogoSupplied /\ ~last.ret.raised /\ last.arg.logo = "good"
    /\ last.ret.doc[1].logo = "picture"
    /\ last.ret.doc[3].logo = "[Logo]"

\* C30 as stated: a finding without issue text that lacks its implication
\* or its mitigation gets the missing text from the first entry the
\* knowledge base returned, and that entry is credited; it gets the
\* placeholder only when the knowledge base is empty.
C30_EmptyIssueFirstKey ==
    last.op = "render" =>
        \A k \in 1..Len(last.arg) :
            LET f == last.arg[k]
                kb == cache.kb
            IN  f.issue = EmptyStr
                /\ (f.implication = EmptyStr \/ f.mitigation = EmptyStr)
                =>
                IF kb = << >>
                THEN /\ f.implication = EmptyStr
                        => last.ret[k].implication = NoImplication
                     /\ f.mitigation = EmptyStr
                        => last.ret[k].mitigation = NoMitigation
                ELSE /\ kb[1].key \in called[last.s]
                     /\ f.implication = EmptyStr
                        => last.ret[k].implication = kb[1].implication
                     /\ f.mitigation = EmptyStr
                        => last.ret[k].mitigation = kb[1].mitigation

====
